---------------------------- MODULE Spec2Model ----------------------------
(***************************************************************************)
(* ScoutPulse backend: the video processing pipeline                       *)
(* (backend/video_processor.py, backend/twelvelabs_integration.py), the    *)
(* request handlers that drive it (backend/main.py) and the WebSocket      *)
(* notification hub (backend/websocket_manager.py).                        *)
(*                                                                         *)
(* Units.  A confidence is held in thousandths (0.92 is 920), a service    *)
(* score in tenths of a point (score 70 is 700), so confidence = score/100 *)
(* is the identity on the held numbers.  A time is held in half seconds    *)
(* (75 s is Sec(75) = 150), so that int(round(t)) has something to round.  *)
(***************************************************************************)
EXTENDS Integers, Sequences, FiniteSets, TLC

VARIABLES
    \* --- one call of _create_highlight_from_event on a drawn event
    ev,                  \* the event handed to the synthesizer
    hl,                  \* the VideoHighlightCreate it returned, or Nothing
    \* --- one call of a DataUpdateNotifier method on a populated hub
    call,                \* the method called and the player id it is given
    \* --- one call of analyze_video
    scenario,            \* what the service's searches return during the call
    \* --- one request to POST /api/process-video
    pc,                  \* position of the request's task
    req,                 \* the request payload
    use_twelve_labs,     \* VideoProcessor.use_twelve_labs
    players,             \* PlayerModel table: player id -> name
    env,                 \* the process environment (KEEP_YT_TEMP,
                         \* YOUTUBE_MAX_DOWNLOAD_SECONDS)
    tempdirs,            \* temp directories on disk: dir -> set of files
    download,            \* locals of _download_youtube_video while it runs
    download_path,       \* process_video_for_player's local download_path
    upload_kwargs,       \* arguments handed to upload_video
    video_id,            \* asset id returned by upload_video
    analysis,            \* result of analyze_video
    store,               \* VideoHighlightModel table, in insertion order
    result,              \* what process_video_for_player returned
    response,            \* what the endpoint answered
    steps,               \* history: the pipeline steps taken, in order
                         \* (trim_failed: the ffmpeg run that failed)
    raised,              \* history: the step whose exception led to the fallback
    persist_failed,      \* history: positions of the batch whose persistence failed
    selected,            \* history: the events chosen for persistence
    \* --- two calls of _simulate_processing on the same inputs
    sim_runs,            \* call number -> its returned result, or None
    \* --- the notification hub
    active_connections,  \* ConnectionManager.active_connections
    player_connections,  \* ConnectionManager.player_connections
    handler,             \* websocket -> state of its endpoint coroutine
    alive,               \* websocket -> the client end is still open
    inbox,               \* websocket -> envelopes delivered to the client
    task,                \* publisher -> state of its notifier call
    send_failed,         \* history: websockets a hub delivery has failed for
    unsubscribed,        \* history: websockets disconnect() has been called for
    late_sends           \* history: sends begun to a failed/unsubscribed websocket

pureVars == <<ev, hl, call, scenario>>
pipeVars == <<pc, req, use_twelve_labs, players, env, tempdirs, download,
              download_path, upload_kwargs, video_id, analysis, store, result,
              response, steps, raised, persist_failed, selected>>
simVars  == <<sim_runs>>
hubVars  == <<active_connections, player_connections, handler, alive, inbox, task,
              send_failed, unsubscribed, late_sends>>
vars     == <<pureVars, pipeVars, simVars, hubVars>>

None == "None"                  \* Python's None where a string is expected
Nothing == [nothing |-> TRUE]   \* Python's None where a record is expected

(***************************************************************************)
(* Values                                                                  *)
(***************************************************************************)
Sec(n) == 2 * n

\* keys of TwelveLabsVideoAnalyzer.soccer_events
EventTypes == {"goal", "assist", "dribble", "tackle", "pass", "shot", "save",
               "foul", "offside", "corner", "free_kick"}

\* str.title() on the event types
StrTitle(s) ==
    CASE s = "goal"      -> "Goal"
      [] s = "assist"    -> "Assist"
      [] s = "dribble"   -> "Dribble"
      [] s = "tackle"    -> "Tackle"
      [] s = "pass"      -> "Pass"
      [] s = "shot"      -> "Shot"
      [] s = "save"      -> "Save"
      [] s = "foul"      -> "Foul"
      [] s = "offside"   -> "Offside"
      [] s = "corner"    -> "Corner"
      [] s = "free_kick" -> "Free_Kick"

\* int(round(t)) for a time t held in half seconds: Python rounds half to even
PyRound(h) ==
    LET f == h \div 2
    IN  IF h % 2 = 0 THEN f
        ELSE IF f % 2 = 0 THEN f ELSE f + 1

\* f"{n:02d}" for n >= 0
Pad2(n) == IF n < 10 THEN "0" \o ToString(n) ELSE ToString(n)

\* DurationStr with the seconds not padded: f"{int(d // 60)}:{int(d % 60)}"
DurationStrUnpadded(duration_seconds) ==
    ToString(duration_seconds \div 60) \o ":" \o ToString(duration_seconds % 60)

\* f"{int(d // 60)}:{int(d % 60):02d}"
DurationStr(duration_seconds) ==
    ToString(duration_seconds \div 60) \o ":" \o Pad2(duration_seconds % 60)

(***************************************************************************)
(* URLs.  A URL is a record [scheme, host, path, query]: host is the       *)
(* hostname cut so that a registered domain it ends with is its last       *)
(* chunk, path the segments after the leading "/", query the key/value     *)
(* parts.                                                                  *)
(***************************************************************************)
YoutubeDomains == {"youtube.com", "youtu.be", "youtube-nocookie.com"}

UrlWatch  == [scheme |-> "https", host |-> <<"www.", "youtube.com">>,
              path |-> <<"watch">>, query |-> <<<<"t", "10">>, <<"v", "abc123">>>>]
UrlShort  == [scheme |-> "https", host |-> <<"youtu.be">>,
              path |-> <<"xyz789">>, query |-> <<>>]
UrlDirect == [scheme |-> "https", host |-> <<"cdn.example.com">>,
              path |-> <<"match.mp4">>, query |-> <<>>]
VideoUrls == {UrlWatch, UrlShort, UrlDirect}

HostEndsWith(host, domain) == Len(host) > 0 /\ host[Len(host)] = domain

_is_youtube_url(url) ==
    IF url.scheme \notin {"http", "https"} THEN FALSE
    ELSE \E domain \in YoutubeDomains : HostEndsWith(url.host, domain)

RECURSIVE JoinPath(_)
JoinPath(segs) ==
    IF segs = <<>> THEN ""
    ELSE IF Len(segs) = 1 THEN segs[1]
    ELSE segs[1] \o "/" \o JoinPath(Tail(segs))

\* the first query part that starts with "v=", or "" when there is none
RECURSIVE QueryV(_)
QueryV(query) ==
    IF query = <<>> THEN ""
    ELSE IF query[1][1] = "v" THEN query[1][2]
    ELSE QueryV(Tail(query))

EmbedUrl(id) == [scheme |-> "https", host |-> <<"www.", "youtube.com">>,
                 path |-> <<"embed", id>>, query |-> <<>>]

_resolve_event_video_url(event, source_video_url) ==
    LET clip_url == IF "clip_url" \in DOMAIN event THEN event.clip_url
                    ELSE IF "video_url" \in DOMAIN event THEN event.video_url
                    ELSE Nothing
    IN  IF clip_url # Nothing THEN clip_url
        ELSE IF source_video_url # Nothing /\ _is_youtube_url(source_video_url)
        THEN LET yt_id == IF HostEndsWith(source_video_url.host, "youtu.be")
                          THEN JoinPath(source_video_url.path)
                          ELSE QueryV(source_video_url.query)
             IN  IF yt_id # "" THEN EmbedUrl(yt_id) ELSE source_video_url
        ELSE source_video_url

(***************************************************************************)
(* HighlightSynthesizer: _create_highlight_from_event                      *)
(***************************************************************************)
\* HighlightType with the strength threshold taken inclusively
HighlightTypeInclusive(event_type, confidence) ==
    IF event_type \in {"goal", "assist", "dribble", "pass"} /\ confidence >= 750
    THEN "strength"
    ELSE IF event_type \in {"foul", "offside"} \/ confidence < 600
    THEN "weakness"
    ELSE "neutral"

HighlightType(event_type, confidence) ==
    IF event_type \in {"goal", "assist", "dribble", "pass"} /\ confidence > 750
    THEN "strength"
    ELSE IF event_type \in {"foul", "offside"} \/ confidence < 600
    THEN "weakness"
    ELSE "neutral"

HighlightTitle(player_name, event_type) ==
    IF event_type = "goal" THEN player_name \o " - Goal"
    ELSE IF event_type = "assist" THEN player_name \o " - Assist"
    ELSE IF event_type = "dribble" THEN player_name \o " - Dribbling Sequence"
    ELSE player_name \o " - " \o StrTitle(event_type)

HighlightTags(event_type, confidence) ==
    <<StrTitle(event_type)>>
    \o (IF confidence > 900 THEN <<"Excellent">> ELSE <<>>)
    \o (IF event_type \in {"goal", "assist"} THEN <<"Key Moment", "Highlight">> ELSE <<>>)

\* uid stands for str(uuid.uuid4()): the caller hands in a fresh token
_create_highlight_from_event(event, player_id, player_name, video_url, match_name, asset_id, uid) ==
    LET event_type == event.type
        confidence == event.confidence
        start_time == PyRound(event.timestamp.start)
        end_time   == PyRound(event.timestamp.end)
        duration_seconds == end_time - start_time
    IN  [id          |-> uid,
         title       |-> HighlightTitle(player_name, event_type),
         thumbnail   |-> <<asset_id, start_time>>,
         video_url   |-> video_url,
         duration    |-> DurationStr(duration_seconds),
         match       |-> match_name,
         type        |-> HighlightType(event_type, confidence),
         tags        |-> HighlightTags(event_type, confidence),
         player_id   |-> player_id,
         description |-> event.description,
         timestamp   |-> [start |-> start_time, end |-> end_time],
         ai_insights |-> [confidence  |-> confidence \div 10,
                          key_moments |-> <<<<event_type, start_time>>>>]]

(***************************************************************************)
(* Python's sorted(seq, key=..., reverse=True): stable, descending.        *)
(***************************************************************************)
\* The element at position i goes after every element with a greater key and
\* after the elements with an equal key that precede it.
SortedDesc(seq, k) ==
    LET n    == Len(seq)
        rank == [i \in 1..n |->
                    1 + Cardinality({j \in 1..n : seq[j][k] > seq[i][k]})
                      + Cardinality({j \in 1..(i - 1) : seq[j][k] = seq[i][k]})]
    IN  [p \in 1..n |-> seq[CHOOSE i \in 1..n : rank[i] = p]]

\* seq[:n]
Take(seq, n) == SubSeq(seq, 1, IF Len(seq) < n THEN Len(seq) ELSE n)

RECURSIVE Flatten(_)
Flatten(seqs) == IF seqs = <<>> THEN <<>> ELSE seqs[1] \o Flatten(Tail(seqs))

(***************************************************************************)
(* The external analysis service.  What a search returns is the service's  *)
(* choice; the model draws it from a family of responses indexed by        *)
(* (items per query, seed).  An item is a scored match carrying clips, or  *)
(* a single scored time range whose start/end attributes may be missing.   *)
(***************************************************************************)
MaxItems == 4          \* most items one query returns in the model
Seeds == {0, 3}
page_limit == 5

ItemCounts == {0, 1, IF MaxItems < page_limit THEN MaxItems ELSE page_limit}

ItemScore(seed, qi, j) == 505 + 5 * ((7 * qi + 13 * j + 11 * seed) % 100)
ItemStart(seed, qi, j) == 40 * qi + 7 * j + seed
\* a few seconds long, every third one more than a minute
ItemEnd(seed, qi, j)   == ItemStart(seed, qi, j) + 9 + 2 * ((qi + j) % 4)
                          + (IF (qi + j) % 3 = 0 THEN Sec(60) ELSE 0)

ServiceItem(seed, qi, j) ==
    LET shape == (qi + j + seed) % 4
        base  == [score |-> ItemScore(seed, qi, j), video_id |-> "asset-1"]
        clip1 == [start |-> ItemStart(seed, qi, j), end |-> ItemEnd(seed, qi, j),
                  id |-> "clip-" \o ToString(qi) \o "-" \o ToString(j) \o "-1"]
        clip2 == [start |-> ItemEnd(seed, qi, j), end |-> ItemEnd(seed, qi, j) + 5,
                  id |-> "clip-" \o ToString(qi) \o "-" \o ToString(j) \o "-2"]
    IN  CASE shape = 0 -> base @@ [start |-> ItemStart(seed, qi, j),
                                   end |-> ItemEnd(seed, qi, j), id |-> "item-" \o ToString(qi) \o "-" \o ToString(j)]
          [] shape = 1 -> base @@ [clips |-> <<clip1>>]
          [] shape = 2 -> base @@ [clips |-> <<clip1, clip2>>]
          [] shape = 3 -> base @@ [start |-> ItemStart(seed, qi, j)]

\* the pager one search.query call returns
SearchResults(sc, qi) == [j \in 1..sc.n |-> ServiceItem(sc.seed, qi, j)]

Scenarios == [n : ItemCounts, seed : Seeds]

(***************************************************************************)
(* AnalysisGateway: TwelveLabsVideoAnalyzer.analyze_video                  *)
(***************************************************************************)
soccer_events(event_type) ==
    CASE event_type = "goal"      -> <<"goal", "score", "finish", "shot on target">>
      [] event_type = "assist"    -> <<"assist", "pass", "through ball", "cross">>
      [] event_type = "dribble"   -> <<"dribble", "run", "beat defender", "skill move">>
      [] event_type = "tackle"    -> <<"tackle", "challenge", "win ball">>
      [] event_type = "pass"      -> <<"pass", "ball distribution", "play making">>
      [] event_type = "shot"      -> <<"shot", "attempt", "strike">>
      [] event_type = "save"      -> <<"save", "goalkeeper", "block">>
      [] event_type = "foul"      -> <<"foul", "yellow card", "red card">>
      [] event_type = "offside"   -> <<"offside", "offside trap">>
      [] event_type = "corner"    -> <<"corner kick", "set piece">>
      [] event_type = "free_kick" -> <<"free kick", "direct free kick">>
      [] OTHER                    -> <<event_type>>   \* .get(event_type, [event_type])

\* getattr(obj, name, default)
GetAttr(obj, name, default) == IF name \in DOMAIN obj THEN obj[name] ELSE default

\* ItemHits with the score threshold taken inclusively (score >= 70)
ItemHitsInclusive(item, event_type, query, player_name) ==
    LET clips == GetAttr(item, "clips", <<>>)
        score == GetAttr(item, "score", 0)
        Hit(start, end, clip_id) ==
            [event  |-> [type        |-> event_type,
                         timestamp   |-> [start |-> start, end |-> end],
                         confidence  |-> score,
                         description |-> player_name \o " - " \o query,
                         video_id    |-> GetAttr(item, "video_id", None),
                         clip_id     |-> clip_id],
             moment |-> [time        |-> start,
                         description |-> query,
                         importance  |-> score,
                         event_type  |-> event_type]]
    IN  IF clips # <<>>
        THEN IF score >= 700
             THEN [c \in 1..Len(clips) |->
                      Hit(clips[c].start, clips[c].end, GetAttr(clips[c], "id", None))]
             ELSE <<>>
        ELSE IF score >= 700
             THEN <<Hit(GetAttr(item, "start", 0),
                        GetAttr(item, "end", GetAttr(item, "start", 0) + Sec(5)),
                        GetAttr(item, "id", None))>>
             ELSE <<>>

\* ItemHits with the score threshold lowered to 50
ItemHitsLowThreshold(item, event_type, query, player_name) ==
    LET clips == GetAttr(item, "clips", <<>>)
        score == GetAttr(item, "score", 0)
        Hit(start, end, clip_id) ==
            [event  |-> [type        |-> event_type,
                         timestamp   |-> [start |-> start, end |-> end],
                         confidence  |-> score,
                         description |-> player_name \o " - " \o query,
                         video_id    |-> GetAttr(item, "video_id", None),
                         clip_id     |-> clip_id],
             moment |-> [time        |-> start,
                         description |-> query,
                         importance  |-> score,
                         event_type  |-> event_type]]
    IN  IF clips # <<>>
        THEN IF score > 500
             THEN [c \in 1..Len(clips) |->
                      Hit(clips[c].start, clips[c].end, GetAttr(clips[c], "id", None))]
             ELSE <<>>
        ELSE IF score > 500
             THEN <<Hit(GetAttr(item, "start", 0),
                        GetAttr(item, "end", GetAttr(item, "start", 0) + Sec(5)),
                        GetAttr(item, "id", None))>>
             ELSE <<>>

\* the (event, key moment) pairs one result item contributes
ItemHits(item, event_type, query, player_name) ==
    LET clips == GetAttr(item, "clips", <<>>)
        score == GetAttr(item, "score", 0)
        Hit(start, end, clip_id) ==
            [event  |-> [type        |-> event_type,
                         timestamp   |-> [start |-> start, end |-> end],
                         confidence  |-> score,
                         description |-> player_name \o " - " \o query,
                         video_id    |-> GetAttr(item, "video_id", None),
                         clip_id     |-> clip_id],
             moment |-> [time        |-> start,
                         description |-> query,
                         importance  |-> score,
                         event_type  |-> event_type]]
    IN  IF clips # <<>>
        THEN IF score > 700
             THEN [c \in 1..Len(clips) |->
                      Hit(clips[c].start, clips[c].end, GetAttr(clips[c], "id", None))]
             ELSE <<>>
        ELSE IF score > 700
             THEN <<Hit(GetAttr(item, "start", 0),
                        GetAttr(item, "end", GetAttr(item, "start", 0) + Sec(5)),
                        GetAttr(item, "id", None))>>
             ELSE <<>>

\* the (event type, query) pairs searched, in order: two queries per event type
SearchPlan(event_types) ==
    Flatten([t \in 1..Len(event_types) |->
                [q \in 1..Len(Take(soccer_events(event_types[t]), 2)) |->
                    [event_type |-> event_types[t],
                     query      |-> soccer_events(event_types[t])[q]]]])

analyze_video(asset_id, player_name, event_types, sc) ==
    LET plan == SearchPlan(event_types)
        hits == Flatten([qi \in 1..Len(plan) |->
                    LET items == SearchResults(sc, qi)
                    IN  Flatten([j \in 1..Len(items) |->
                            ItemHits(items[j], plan[qi].event_type, plan[qi].query,
                                     player_name)])])
        detected_events == [i \in 1..Len(hits) |-> hits[i].event]
        key_moments     == [i \in 1..Len(hits) |-> hits[i].moment]
    IN  [video_id        |-> asset_id,
         status          |-> "completed",
         detected_events |-> detected_events,
         key_moments     |-> Take(SortedDesc(key_moments, "importance"), 10),
         total_events    |-> Len(detected_events)]

PipelineEventTypes == <<"goal", "assist", "dribble", "pass", "shot", "tackle">>

(***************************************************************************)
(* NotificationHub: ConnectionManager and DataUpdateNotifier.              *)
(*                                                                         *)
(* A scope is a channel of active_connections or a player id of            *)
(* player_connections.  The hub value h = [ac, pcs] is the pair of         *)
(* registries.  A task is one call of a notifier method; between two       *)
(* awaits of send_json it runs without interruption (asyncio), so one      *)
(* action takes it from the return of one send to the start of the next.   *)
(***************************************************************************)
\* websockets and notifier calls are numbered in the order in which they appear
WebSockets == 1..2
Tasks      == 1..2
PlayerIds  == {"p1"}
Channels   == {"global", "players", "highlights", "analytics"}

Chan(name)  == [kind |-> "channel", name |-> name]
Player(pid) == [kind |-> "player", name |-> pid]

HasScope(h, scope) ==
    IF scope.kind = "channel" THEN scope.name \in DOMAIN h.ac
    ELSE scope.name \in DOMAIN h.pcs

Reg(h, scope) == IF scope.kind = "channel" THEN h.ac[scope.name] ELSE h.pcs[scope.name]

\* registry[key].add(websocket), creating the key's set when it is missing
RegAdd(h, scope, w) ==
    IF scope.kind = "channel"
    THEN [h EXCEPT !.ac = [k \in DOMAIN h.ac \cup {scope.name} |->
                              IF k = scope.name
                              THEN (IF k \in DOMAIN h.ac THEN h.ac[k] ELSE {}) \cup {w}
                              ELSE h.ac[k]]]
    ELSE [h EXCEPT !.pcs = [k \in DOMAIN h.pcs \cup {scope.name} |->
                              IF k = scope.name
                              THEN (IF k \in DOMAIN h.pcs THEN h.pcs[k] ELSE {}) \cup {w}
                              ELSE h.pcs[k]]]

\* registry[key].discard(websocket) for every websocket of gone, when the key exists
RegDiscard(h, scope, gone) ==
    IF ~HasScope(h, scope) THEN h
    ELSE IF scope.kind = "channel"
    THEN [h EXCEPT !.ac[scope.name] = @ \ gone]
    ELSE [h EXCEPT !.pcs[scope.name] = @ \ gone]

connect(h, w, scope)    == RegAdd(h, scope, w)
disconnect(h, w, scope) == RegDiscard(h, scope, {w})

\* sum(len(conns) for conns in registry.values()) over the keys of keys
RECURSIVE SumLen(_, _)
SumLen(registry, keys) ==
    IF keys = {} THEN 0
    ELSE LET k == CHOOSE x \in keys : TRUE
         IN  Cardinality(registry[k]) + SumLen(registry, keys \ {k})

\* get_connection_count(): no channel given, the sum over active_connections
get_connection_count == SumLen(active_connections, DOMAIN active_connections)

\* get_connection_count(channel): len(active_connections.get(channel, set()))
get_channel_count(channel) ==
    IF channel \in DOMAIN active_connections
    THEN Cardinality(active_connections[channel]) ELSE 0

\* GET /api/ws/status
websocket_status ==
    [total_connections      |-> get_connection_count,
     connections_by_channel |-> [c \in Channels |-> get_channel_count(c)],
     player_channels        |-> Cardinality(DOMAIN player_connections)]

\* the scopes a notifier method broadcasts to, in order
NotifyKinds == {"player_update", "highlight_added", "analysis_complete",
                "report_generated", "stats_update"}

NotifyScopes(kind, pid) ==
    CASE kind = "player_update"     -> <<Player(pid), Chan("players")>>
      [] kind = "highlight_added"   -> (IF pid # None THEN <<Player(pid)>> ELSE <<>>)
                                       \o <<Chan("highlights")>>
      [] kind = "analysis_complete" -> <<Player(pid), Chan("analytics")>>
      [] kind = "report_generated"  -> <<Player(pid)>>
      [] kind = "stats_update"      -> <<Chan("analytics")>>

\* failed keeps, for the whole call, the (scope, websocket) pairs whose send
\* raised; skipped those of the websockets that were in a scope's set when its
\* broadcast began and to which the broadcast ended without a send
IdleTask == [pc |-> "idle"]

NewTask(envelope, scopes) ==
    [pc |-> "begin", envelope |-> envelope, todo |-> scopes, scope |-> Nothing,
     size |-> 0, snapshot |-> {}, yielded |-> {}, cur |-> 0, disconnected |-> {},
     failed |-> {}, skipped |-> {}]

\* the call has returned or raised; todo keeps the scopes it never got to
EndTask(tk, how) ==
    [pc |-> how, envelope |-> Nothing, todo |-> tk.todo, scope |-> Nothing,
     size |-> 0, snapshot |-> {}, yielded |-> {}, cur |-> 0, disconnected |-> {},
     failed |-> tk.failed, skipped |-> tk.skipped]

(***************************************************************************)
(* broadcast / broadcast_to_player.  The for loop iterates the live set:   *)
(* each fetch raises RuntimeError when the set's size differs from the     *)
(* size at the loop's start, and otherwise yields an element of the set    *)
(* not yet yielded, in no particular order; an element added since the     *)
(* loop began may or may not be reached.  After the loop the websockets    *)
(* whose send raised are discarded.  The outcomes are the states in which  *)
(* the task next awaits a send, or has returned, or has raised.            *)
(***************************************************************************)
\* the broadcast to tk.scope ends here: the websockets of its first set that
\* it has not sent to are noted
LoopEnds(tk) ==
    [tk EXCEPT !.skipped = @ \cup {[scope |-> tk.scope, w |-> w] :
                                      w \in tk.snapshot \ tk.yielded}]

RECURSIVE IterStep(_, _), BeginNext(_, _)
IterStep(tk, h) ==
    LET reg  == Reg(h, tk.scope)
        cand == reg \ tk.yielded
    IN  IF Cardinality(reg) # tk.size
        THEN {[task |-> EndTask(LoopEnds(tk), "error"), hub |-> h]}
        ELSE {[task |-> [tk EXCEPT !.pc = "send", !.cur = c, !.yielded = @ \cup {c}],
               hub  |-> h] : c \in cand}
             \cup (IF cand \cap tk.snapshot = {}
                   THEN BeginNext(LoopEnds(tk),
                                  RegDiscard(h, tk.scope, tk.disconnected))
                   ELSE {})

BeginNext(tk, h) ==
    IF tk.todo = <<>> THEN {[task |-> EndTask(tk, "done"), hub |-> h]}
    ELSE LET scope == Head(tk.todo)
         IN  IF ~HasScope(h, scope)
             THEN BeginNext([tk EXCEPT !.todo = Tail(@)], h)
             ELSE IterStep([tk EXCEPT !.todo = Tail(@), !.scope = scope,
                                      !.size = Cardinality(Reg(h, scope)),
                                      !.snapshot = Reg(h, scope), !.yielded = {},
                                      !.cur = 0, !.disconnected = {}], h)

Hub == [ac |-> active_connections, pcs |-> player_connections]

\* the task moves to nxt: the registries follow, and a send begun is recorded
TaskMoves(t, nxt) ==
    /\ task' = [task EXCEPT ![t] = nxt.task]
    /\ active_connections' = nxt.hub.ac
    /\ player_connections' = nxt.hub.pcs
    /\ late_sends' = IF nxt.task.pc = "send"
                        /\ nxt.task.cur \in (send_failed' \cup unsubscribed)
                     THEN late_sends \cup {nxt.task.cur}
                     ELSE late_sends

\* a notifier method is called: it runs to its first send, or returns
StartNotify(t, envelope, scopes) ==
    /\ task[t].pc = "idle"
    /\ \A u \in 1..(t - 1) : task[u].pc # "idle"
    /\ send_failed' = send_failed
    /\ \E nxt \in BeginNext(NewTask(envelope, scopes), Hub) : TaskMoves(t, nxt)
    /\ UNCHANGED <<handler, alive, inbox, unsubscribed>>

\* await connection.send_json(message) returns: the envelope is delivered.  A
\* connection transmits its frames in the order in which the sends were begun,
\* and the endpoint's "connected" send is begun in the step that registers the
\* websocket, before any publish can reach it: while that send is pending no
\* later send to the websocket completes.
SendOk(t) ==
    /\ task[t].pc = "send"
    /\ alive[task[t].cur]
    /\ handler[task[t].cur].pc # "greet"
    /\ inbox' = [inbox EXCEPT ![task[t].cur] = Append(@, task[t].envelope.type)]
    /\ send_failed' = send_failed
    /\ \E nxt \in IterStep(task[t], Hub) : TaskMoves(t, nxt)
    /\ UNCHANGED <<handler, alive, unsubscribed>>

\* await connection.send_json(message) raises: the websocket is noted for removal
SendFail(t) ==
    /\ task[t].pc = "send"
    /\ ~alive[task[t].cur]
    /\ send_failed' = send_failed \cup {task[t].cur}
    /\ \E nxt \in IterStep([task[t] EXCEPT
                                 !.disconnected = @ \cup {task[t].cur},
                                 !.failed = @ \cup {[scope |-> task[t].scope,
                                                     w |-> task[t].cur]}], Hub) :
           TaskMoves(t, nxt)
    /\ UNCHANGED <<handler, alive, inbox, unsubscribed>>

(***************************************************************************)
(* The websocket endpoints of main.py: /ws (global), /ws/player/{id},      *)
(* /ws/highlights, /ws/analytics.                                          *)
(***************************************************************************)
MaxPings == 1          \* client messages received by the endpoints, all told

EndpointScopes == {Chan("global"), Chan("highlights"), Player("p1")}

RECURSIVE PingsOf(_, _)
PingsOf(hs, ws) ==
    IF ws = {} THEN 0
    ELSE LET w == CHOOSE v \in ws : TRUE IN hs[w].pings + PingsOf(hs, ws \ {w})

IdleHandler == [pc |-> "idle", scope |-> Nothing, pings |-> 0]

\* a client opens a websocket: the endpoint awaits websocket.accept()
Connect(w, scope) ==
    /\ handler[w].pc = "idle"
    /\ \A v \in 1..(w - 1) : handler[v].pc # "idle"
    /\ handler' = [handler EXCEPT ![w] = [@ EXCEPT !.pc = "accept", !.scope = scope]]
    /\ alive' = [alive EXCEPT ![w] = TRUE]
    /\ UNCHANGED <<active_connections, player_connections, inbox, task, send_failed,
                   unsubscribed, late_sends>>
    /\ UNCHANGED <<pureVars, pipeVars, simVars>>

\* AcceptOk with the websocket registered before accept() is awaited: the
\* registration and the start of the "connected" send are two steps
AcceptOkRegistersFirst(w) ==
    /\ handler[w].pc = "accept"
    /\ alive[w]
    /\ IF HasScope(Hub, handler[w].scope) /\ w \in Reg(Hub, handler[w].scope)
       THEN /\ handler' = [handler EXCEPT ![w].pc =
                             IF handler[w].scope = Chan("global") THEN "receive"
                             ELSE "greet"]
            /\ UNCHANGED <<active_connections, player_connections>>
       ELSE /\ LET h == connect(Hub, w, handler[w].scope)
               IN  /\ active_connections' = h.ac
                   /\ player_connections' = h.pcs
            /\ handler' = handler
    /\ UNCHANGED <<alive, inbox, task, send_failed, unsubscribed, late_sends>>
    /\ UNCHANGED <<pureVars, pipeVars, simVars>>

\* accept() returns: the websocket is registered; a scoped endpoint then starts
\* sending its "connected" envelope, the global endpoint starts receiving
AcceptOk(w) ==
    /\ handler[w].pc = "accept"
    /\ alive[w]
    /\ LET h == connect(Hub, w, handler[w].scope)
       IN  /\ active_connections' = h.ac
           /\ player_connections' = h.pcs
    /\ handler' = [handler EXCEPT ![w].pc =
                      IF handler[w].scope = Chan("global") THEN "receive" ELSE "greet"]
    /\ UNCHANGED <<alive, inbox, task, send_failed, unsubscribed, late_sends>>
    /\ UNCHANGED <<pureVars, pipeVars, simVars>>

\* accept() raises (the client is gone): the endpoint ends before registering
AcceptFail(w) ==
    /\ handler[w].pc = "accept"
    /\ ~alive[w]
    /\ handler' = [handler EXCEPT ![w].pc = "ended"]
    /\ UNCHANGED <<active_connections, player_connections, alive, inbox, task,
                   send_failed, unsubscribed, late_sends>>
    /\ UNCHANGED <<pureVars, pipeVars, simVars>>

\* the endpoint's own send_json returns ("connected" after connecting, "pong"
\* after a client message)
ReplyOk(w) ==
    /\ handler[w].pc \in {"greet", "pong"}
    /\ alive[w]
    /\ inbox' = [inbox EXCEPT ![w] =
                    Append(@, IF handler[w].pc = "greet" THEN "connected" ELSE "pong")]
    /\ handler' = [handler EXCEPT ![w].pc = "receive"]
    /\ UNCHANGED <<active_connections, player_connections, alive, task, send_failed,
                   unsubscribed, late_sends>>
    /\ UNCHANGED <<pureVars, pipeVars, simVars>>

\* the handler's except WebSocketDisconnect clause: disconnect(websocket, scope)
HandlerDisconnects(w) ==
    /\ LET h == disconnect(Hub, w, handler[w].scope)
       IN  /\ active_connections' = h.ac
           /\ player_connections' = h.pcs
    /\ handler' = [handler EXCEPT ![w].pc = "ended"]
    /\ unsubscribed' = unsubscribed \cup {w}
    /\ UNCHANGED <<alive, inbox, task, send_failed, late_sends>>

\* the endpoint's own send_json raises WebSocketDisconnect
ReplyDisconnect(w) ==
    /\ handler[w].pc \in {"greet", "pong"}
    /\ ~alive[w]
    /\ HandlerDisconnects(w)
    /\ UNCHANGED <<pureVars, pipeVars, simVars>>

\* the endpoint's own send_json raises another exception: only
\* WebSocketDisconnect is caught, so the endpoint ends without disconnect()
ReplyError(w) ==
    /\ handler[w].pc \in {"greet", "pong"}
    /\ ~alive[w]
    /\ handler' = [handler EXCEPT ![w].pc = "ended"]
    /\ UNCHANGED <<active_connections, player_connections, alive, inbox, task,
                   send_failed, unsubscribed, late_sends>>
    /\ UNCHANGED <<pureVars, pipeVars, simVars>>

\* receive_text() returns a client message: the endpoint starts sending "pong"
Receive(w) ==
    /\ handler[w].pc = "receive"
    /\ alive[w]
    /\ PingsOf(handler, WebSockets) < MaxPings
    /\ handler' = [handler EXCEPT ![w] = [@ EXCEPT !.pc = "pong", !.pings = @ + 1]]
    /\ UNCHANGED <<active_connections, player_connections, alive, inbox, task,
                   send_failed, unsubscribed, late_sends>>
    /\ UNCHANGED <<pureVars, pipeVars, simVars>>

\* receive_text() raises WebSocketDisconnect
ReceiveDisconnect(w) ==
    /\ handler[w].pc = "receive"
    /\ ~alive[w]
    /\ HandlerDisconnects(w)
    /\ UNCHANGED <<pureVars, pipeVars, simVars>>

\* the client end closes
ClientClose(w) ==
    /\ handler[w].pc \notin {"idle", "ended"}
    /\ alive[w]
    /\ alive' = [alive EXCEPT ![w] = FALSE]
    /\ UNCHANGED <<active_connections, player_connections, handler, inbox, task,
                   send_failed, unsubscribed, late_sends>>
    /\ UNCHANGED <<pureVars, pipeVars, simVars>>

\* some request handler calls a notifier method
Notify(t, kind, pid) ==
    StartNotify(t, [type |-> kind, player_id |-> pid], NotifyScopes(kind, pid))

(***************************************************************************)
(* PipelineCoordinator: VideoProcessor.process_video_for_player and        *)
(* _simulate_processing, driven by POST /api/process-video.                *)
(***************************************************************************)
MaxPersistFails == 1   \* most highlights of one batch whose persistence fails
UUIDs == {"uuid-a", "uuid-b"}      \* what uuid.uuid4() may draw

\* the positions of a batch of n at which the model lets persistence fail: the
\* first two and the last
FailPositions(n) == {1, 2, n} \cap (1..n)

RECURSIVE FailSetsUpTo(_, _)
FailSetsUpTo(n, k) ==
    IF k = 0 THEN {{}}
    ELSE LET smaller == FailSetsUpTo(n, k - 1)
         IN  smaller \cup {F \cup {i} : F \in smaller, i \in FailPositions(n)}

\* which sets of positions of a batch of n may fail to persist
FailSets(n) == FailSetsUpTo(n, MaxPersistFails)

\* SelectEvents without the [:20]
SelectEventsUncapped(detected_events) == SortedDesc(detected_events, "confidence")

\* SelectEvents without the sort: the first 20 in detection order
SelectEventsUnsorted(detected_events) == Take(detected_events, 20)

\* sorted(detected_events, key=confidence, reverse=True)[:20]
SelectEvents(detected_events) == Take(SortedDesc(detected_events, "confidence"), 20)

\* PersistedPositions with the try around the loop instead of inside it: the
\* first failure ends the batch
PersistedPositionsAborting(n, fails) == {i \in 1..n : \A j \in fails : i < j}

\* the positions of the batch that reach the store: a failure is caught inside
\* the loop body (except Exception: continue)
PersistedPositions(n, fails) == {i \in 1..n : i \notin fails}

\* the events of the batch whose highlight reaches the store, in loop order
PersistedEvents(events, fails) ==
    LET ok       == PersistedPositions(Len(events), fails)
        numbered == [i \in 1..Len(events) |-> [pos |-> i, event |-> events[i]]]
        Reaches(x) == x.pos \in ok
        kept     == SelectSeq(numbered, Reaches)
    IN  [k \in 1..Len(kept) |-> kept[k].event]

\* str(uuid.uuid4()) for the k-th highlight added to db: a token not yet in use
FreshId(db, k) == "h" \o ToString(Len(db) + k)

\* SimulatedEvents with the goal's end time off by one second
SimulatedEventsShifted(player_name, asset_id) ==
    << [type |-> "goal", timestamp |-> [start |-> Sec(75), end |-> Sec(91)],
        confidence |-> 920,
        description |-> player_name \o " scores from inside the box",
        video_id |-> asset_id, clip_id |-> None],
       [type |-> "assist", timestamp |-> [start |-> Sec(180), end |-> Sec(195)],
        confidence |-> 880,
        description |-> player_name \o " provides a key pass leading to a goal",
        video_id |-> asset_id, clip_id |-> None],
       [type |-> "dribble", timestamp |-> [start |-> Sec(260), end |-> Sec(275)],
        confidence |-> 840,
        description |-> player_name \o " beats two defenders",
        video_id |-> asset_id, clip_id |-> None] >>

SimulatedEvents(player_name, asset_id) ==
    << [type |-> "goal", timestamp |-> [start |-> Sec(75), end |-> Sec(90)],
        confidence |-> 920,
        description |-> player_name \o " scores from inside the box",
        video_id |-> asset_id, clip_id |-> None],
       [type |-> "assist", timestamp |-> [start |-> Sec(180), end |-> Sec(195)],
        confidence |-> 880,
        description |-> player_name \o " provides a key pass leading to a goal",
        video_id |-> asset_id, clip_id |-> None],
       [type |-> "dribble", timestamp |-> [start |-> Sec(260), end |-> Sec(275)],
        confidence |-> 840,
        description |-> player_name \o " beats two defenders",
        video_id |-> asset_id, clip_id |-> None] >>

\* uuid is the value uuid.uuid4() draws, fails the positions whose persistence fails
_simulate_processing(db, player, video_url, match_name, auto_create_highlights, uuid, fails) ==
    LET asset_id == "simulated-" \o uuid
        simulated_events == SimulatedEvents(player.name, asset_id)
        key_moments == [i \in 1..Len(simulated_events) |->
                           [time        |-> simulated_events[i].timestamp.start,
                            description |-> simulated_events[i].description,
                            importance  |-> simulated_events[i].confidence,
                            event_type  |-> simulated_events[i].type]]
        sim_analysis == [video_id        |-> asset_id,
                         status          |-> "simulated",
                         detected_events |-> simulated_events,
                         key_moments     |-> key_moments,
                         total_events    |-> Len(simulated_events),
                         ai_summary      |-> "Simulated analysis for " \o player.name]
        kept == IF auto_create_highlights
                THEN PersistedEvents(simulated_events, fails)
                ELSE <<>>
        made == [k \in 1..Len(kept) |->
                    _create_highlight_from_event(kept[k], player.id, player.name,
                        video_url, match_name, asset_id, FreshId(db, k))]
        batch == [store   |-> db \o made,
                  created |-> [k \in 1..Len(made) |->
                                  [id |-> made[k].id, title |-> made[k].title,
                                   type |-> made[k].type,
                                   timestamp |-> made[k].timestamp]]]
    IN  [store  |-> batch.store,
         result |-> [status             |-> "success",
                     video_id           |-> asset_id,
                     player_id          |-> player.id,
                     player_name        |-> player.name,
                     match              |-> match_name,
                     analysis           |-> sim_analysis,
                     highlights_created |-> Len(batch.created),
                     highlights         |-> batch.created,
                     message            |-> "Twelve Labs unavailable. Returned simulated analysis and highlights for local testing."]]

\* Step 4 of process_video_for_player and its return value
CreateHighlights(db, player, video_url, match_name, auto_create_highlights, asset_id, the_analysis, events, fails) ==
    LET kept == IF auto_create_highlights /\ the_analysis.detected_events # <<>>
                THEN PersistedEvents(events, fails)
                ELSE <<>>
        made == [k \in 1..Len(kept) |->
                    _create_highlight_from_event(kept[k], player.id, player.name,
                        _resolve_event_video_url(kept[k], video_url),
                        match_name, asset_id, FreshId(db, k))]
        batch == [store   |-> db \o made,
                  created |-> [k \in 1..Len(made) |->
                                  [id |-> made[k].id, title |-> made[k].title,
                                   type |-> made[k].type,
                                   timestamp |-> made[k].timestamp,
                                   video_url |-> made[k].video_url]]]
    IN  [store  |-> batch.store,
         result |-> [status             |-> "success",
                     video_id           |-> asset_id,
                     player_id          |-> player.id,
                     player_name        |-> player.name,
                     match              |-> match_name,
                     analysis           |-> the_analysis,
                     highlights_created |-> Len(batch.created),
                     highlights         |-> batch.created,
                     message            |-> "Successfully processed video. Created "
                                            \o ToString(Len(batch.created)) \o " highlights."]]

(***************************************************************************)
(* The request's task.  pc names the statement it is at; the awaits that   *)
(* suspend it are the download (run_in_executor) and the ffmpeg            *)
(* subprocess, and later each send of the notification.                    *)
(***************************************************************************)
MaxSecondsSettings ==
    {[valid |-> FALSE, value |-> 0]} \cup
    {[valid |-> TRUE, value |-> v] : v \in {0 - 5, 0, 5, 10, 600, 7200, 9000}}

\* os.getenv("YOUTUBE_MAX_DOWNLOAD_SECONDS", "600") when the variable is unset
DefaultMaxSeconds == [valid |-> TRUE, value |-> 600]

TempDirName == "scoutpulse-yt-1"
NoDirs == [d \in {} |-> {}]

Step(name) == steps' = Append(steps, name)

ThePlayer == [id |-> req.player_id, name |-> players[req.player_id]]

\* an exception reaches the except clause of process_video_for_player
Raise(step) == /\ raised' = step
               /\ pc' = "except"

\* Lookup placed after the temporary directory has been made
LookupAfterMkdtemp ==
    /\ pc = "start"
    /\ Step("lookup")
    /\ IF req.player_id \in DOMAIN players
       THEN pc' = "resolve" /\ response' = response /\ tempdirs' = tempdirs
       ELSE pc' = "failed" /\ response' = [status_code |-> 404]
            /\ tempdirs' = (TempDirName :> {})
    /\ UNCHANGED <<req, use_twelve_labs, players, env, download,
                   download_path, upload_kwargs, video_id, analysis, store, result,
                   raised, persist_failed, selected>>
    /\ UNCHANGED <<pureVars, simVars, hubVars>>

\* player = db.query(PlayerModel)...first(); if not player: raise ValueError, which
\* the endpoint turns into a 404
Lookup ==
    /\ pc = "start"
    /\ Step("lookup")
    /\ IF req.player_id \in DOMAIN players
       THEN pc' = "resolve" /\ response' = response
       ELSE pc' = "failed" /\ response' = [status_code |-> 404]
    /\ UNCHANGED <<req, use_twelve_labs, players, env, tempdirs, download,
                   download_path, upload_kwargs, video_id, analysis, store, result,
                   raised, persist_failed, selected>>
    /\ UNCHANGED <<pureVars, simVars, hubVars>>

\* if not self.use_twelve_labs: return self._simulate_processing(...)
Unconfigured ==
    /\ pc = "resolve"
    /\ ~use_twelve_labs
    /\ Step("simulate")
    /\ \E uuid \in UUIDs, fails \in FailSets(3) :
          LET out == _simulate_processing(store, ThePlayer, req.video_url,
                         req.match_name, req.auto_create_highlights, uuid, fails)
          IN  /\ store' = out.store
              /\ result' = out.result
              /\ persist_failed' = IF req.auto_create_highlights THEN fails ELSE {}
              /\ selected' = IF req.auto_create_highlights
                             THEN out.result.analysis.detected_events
                             ELSE <<>>
    /\ pc' = "returned"
    /\ UNCHANGED <<req, use_twelve_labs, players, env, tempdirs, download,
                   download_path, upload_kwargs, video_id, analysis, response, raised>>
    /\ UNCHANGED <<pureVars, simVars, hubVars>>

\* try: download_path = None; a hosted-platform link is downloaded, anything
\* else is handed to the upload by reference
Resolve ==
    /\ pc = "resolve"
    /\ use_twelve_labs
    /\ IF _is_youtube_url(req.video_url)
       THEN /\ pc' = "acquire"
            /\ upload_kwargs' = upload_kwargs
       ELSE /\ pc' = "upload"
            /\ upload_kwargs' = [video_url |-> req.video_url]
    /\ UNCHANGED <<req, use_twelve_labs, players, env, tempdirs, download,
                   download_path, video_id, analysis, store, result, response, steps,
                   raised, persist_failed, selected>>
    /\ UNCHANGED <<pureVars, simVars, hubVars>>

\* _download_youtube_video up to its await: mkdtemp, then
\* int(os.getenv("YOUTUBE_MAX_DOWNLOAD_SECONDS", "600")), which raises ValueError
\* on a setting that is no integer, before the try that removes the directory
DownloadBegin ==
    /\ pc = "acquire"
    /\ Step("acquire")
    /\ tempdirs' = (TempDirName :> {})
    /\ LET setting == env.YOUTUBE_MAX_DOWNLOAD_SECONDS
       IN  IF setting.valid
           THEN /\ download' = [temp_dir |-> TempDirName, max_seconds |-> setting.value]
                /\ pc' = "downloading"
                /\ raised' = raised
           ELSE /\ download' = Nothing
                /\ Raise("download")
    /\ UNCHANGED <<req, use_twelve_labs, players, env, download_path,
                   upload_kwargs, video_id, analysis, store, result, response,
                   persist_failed, selected>>
    /\ UNCHANGED <<pureVars, simVars, hubVars>>

\* _download_youtube_video returns path: download_path and the upload argument
HandToUpload(path) ==
    /\ download_path' = path
    /\ upload_kwargs' = [video_file_path |-> path]
    /\ pc' = "upload"

\* the download returns and the file exists; _trim_video returns the path as it
\* is when max_seconds <= 0, and starts ffmpeg otherwise
DownloadOk ==
    /\ pc = "downloading"
    /\ tempdirs' = [tempdirs EXCEPT ![download.temp_dir] = @ \cup {"video.mp4"}]
    /\ LET path == [dir |-> download.temp_dir, name |-> "video.mp4", trimmed_to |-> 0]
       IN  IF download.max_seconds <= 0
           THEN /\ HandToUpload(path)
                /\ download' = Nothing
           ELSE /\ download' = download @@ [file_path |-> path]
                /\ pc' = "transcoding"
                /\ UNCHANGED <<download_path, upload_kwargs>>
    /\ UNCHANGED <<req, use_twelve_labs, players, env, video_id, analysis,
                   store, result, response, steps, raised, persist_failed, selected>>
    /\ UNCHANGED <<pureVars, simVars, hubVars>>

\* DownloadFail with no except clause around the run: the error reaches the
\* endpoint, which answers 500
DownloadFailEscapes ==
    /\ pc = "downloading"
    /\ tempdirs' = [d \in DOMAIN tempdirs \ {download.temp_dir} |-> tempdirs[d]]
    /\ download' = Nothing
    /\ raised' = "download"
    /\ pc' = "failed"
    /\ response' = [status_code |-> 500]
    /\ UNCHANGED <<req, use_twelve_labs, players, env,
                   download_path, upload_kwargs, video_id, analysis, store, result,
                   steps, persist_failed, selected>>
    /\ UNCHANGED <<pureVars, simVars, hubVars>>

\* the download raises, or its file is missing: except Exception removes the
\* directory and raises again
DownloadFail ==
    /\ pc = "downloading"
    /\ tempdirs' = [d \in DOMAIN tempdirs \ {download.temp_dir} |-> tempdirs[d]]
    /\ download' = Nothing
    /\ Raise("download")
    /\ UNCHANGED <<req, use_twelve_labs, players, env,
                   download_path, upload_kwargs, video_id, analysis, store, result,
                   response, steps, persist_failed, selected>>
    /\ UNCHANGED <<pureVars, simVars, hubVars>>

\* TrimDuration without the clamp: the setting is used as it is
TrimDurationUnclamped(max_seconds) == max_seconds

\* trim_duration = max(10, min(max_seconds, 7200))
TrimDuration(max_seconds) ==
    LET capped == IF max_seconds < 7200 THEN max_seconds ELSE 7200
    IN  IF capped > 10 THEN capped ELSE 10

\* ffmpeg exits 0 and the trimmed file exists: the original is unlinked
TranscodeOk ==
    /\ pc = "transcoding"
    /\ tempdirs' = [tempdirs EXCEPT ![download.temp_dir] =
                        (@ \cup {"video_trimmed.mp4"}) \ {"video.mp4"}]
    /\ HandToUpload([dir |-> download.temp_dir, name |-> "video_trimmed.mp4",
                     trimmed_to |-> TrimDuration(download.max_seconds)])
    /\ Step("trim")
    /\ download' = Nothing
    /\ UNCHANGED <<req, use_twelve_labs, players, env, video_id, analysis,
                   store, result, response, raised, persist_failed, selected>>
    /\ UNCHANGED <<pureVars, simVars, hubVars>>

\* TranscodeFail with the ffmpeg error left to propagate: the except clause of
\* _download_youtube_video removes the directory and raises again
TranscodeFailRaises ==
    /\ pc = "transcoding"
    /\ tempdirs' = [d \in DOMAIN tempdirs \ {download.temp_dir} |-> tempdirs[d]]
    /\ Step("trim_failed")
    /\ download' = Nothing
    /\ Raise("download")
    /\ UNCHANGED <<req, use_twelve_labs, players, env, download_path,
                   upload_kwargs, video_id, analysis, store, result, response,
                   persist_failed, selected>>
    /\ UNCHANGED <<pureVars, simVars, hubVars>>

\* ffmpeg fails: except Exception unlinks the trimmed file and returns the
\* original path; nothing is raised
TranscodeFail ==
    /\ pc = "transcoding"
    /\ tempdirs' = [tempdirs EXCEPT ![download.temp_dir] = @ \ {"video_trimmed.mp4"}]
    /\ HandToUpload(download.file_path)
    /\ Step("trim_failed")
    /\ download' = Nothing
    /\ UNCHANGED <<req, use_twelve_labs, players, env, video_id, analysis,
                   store, result, response, raised, persist_failed, selected>>
    /\ UNCHANGED <<pureVars, simVars, hubVars>>

\* the task is cancelled while suspended: CancelledError is no Exception, so no
\* except clause runs; the finally clause finds download_path still None
Cancel ==
    /\ pc \in {"downloading", "transcoding"}
    /\ pc' = "cancelled"
    /\ download' = Nothing
    /\ UNCHANGED <<req, use_twelve_labs, players, env, tempdirs,
                   download_path, upload_kwargs, video_id, analysis, store, result,
                   response, steps, raised, persist_failed, selected>>
    /\ UNCHANGED <<pureVars, simVars, hubVars>>

\* Step 1, upload_video: client.tasks.create returns the indexing task
UploadBegin ==
    /\ pc = "upload"
    /\ Step("upload")
    /\ pc' = "indexing"
    /\ UNCHANGED <<req, use_twelve_labs, players, env, tempdirs, download,
                   download_path, upload_kwargs, video_id, analysis, store, result,
                   response, raised, persist_failed, selected>>
    /\ UNCHANGED <<pureVars, simVars, hubVars>>

\* wait_for_done(task_id, sleep_interval=5) retrieves the task and finds it in no
\* final status: it sleeps for the interval.  The call is given no timeout and
\* counts no polls.
PollPending ==
    /\ pc = "indexing"
    /\ pc' = "sleeping"
    /\ UNCHANGED <<req, use_twelve_labs, players, env, tempdirs, download,
                   download_path, upload_kwargs, video_id, analysis, store, result,
                   response, steps, raised, persist_failed, selected>>
    /\ UNCHANGED <<pureVars, simVars, hubVars>>

\* the sleep ends and wait_for_done retrieves the task again
Wake ==
    /\ pc = "sleeping"
    /\ pc' = "indexing"
    /\ UNCHANGED <<req, use_twelve_labs, players, env, tempdirs, download,
                   download_path, upload_kwargs, video_id, analysis, store, result,
                   response, steps, raised, persist_failed, selected>>
    /\ UNCHANGED <<pureVars, simVars, hubVars>>

\* the task is found with status "ready": upload_video returns the asset id
UploadOk ==
    /\ pc = "indexing"
    /\ video_id' = "asset-1"
    /\ upload_kwargs' = Nothing
    /\ pc' = "analyze"
    /\ UNCHANGED <<req, use_twelve_labs, players, env, tempdirs, download,
                   download_path, analysis, store, result, response, steps, raised,
                   persist_failed, selected>>
    /\ UNCHANGED <<pureVars, simVars, hubVars>>

\* upload_video raises: the task's creation fails, or the indexing ends in a
\* status other than "ready"
UploadFail ==
    /\ pc \in {"upload", "indexing"}
    /\ steps' = IF pc = "upload" THEN Append(steps, "upload") ELSE steps
    /\ upload_kwargs' = Nothing
    /\ Raise("upload")
    /\ UNCHANGED <<req, use_twelve_labs, players, env, tempdirs, download,
                   download_path, video_id, analysis, store, result, response,
                   persist_failed, selected>>
    /\ UNCHANGED <<pureVars, simVars, hubVars>>

\* Step 2: analyze_video returns
AnalyzeOk ==
    /\ pc = "analyze"
    /\ Step("analyze")
    /\ \E sc \in Scenarios :
          analysis' = analyze_video(video_id, ThePlayer.name, PipelineEventTypes, sc)
    /\ pc' = "summary"
    /\ UNCHANGED <<req, use_twelve_labs, players, env, tempdirs, download,
                   download_path, upload_kwargs, video_id, store, result, response,
                   raised, persist_failed, selected>>
    /\ UNCHANGED <<pureVars, simVars, hubVars>>

\* analyze_video raises (a search call fails)
AnalyzeFail ==
    /\ pc = "analyze"
    /\ Step("analyze")
    /\ Raise("analysis")
    /\ UNCHANGED <<req, use_twelve_labs, players, env, tempdirs, download,
                   download_path, upload_kwargs, video_id, analysis, store, result,
                   response, persist_failed, selected>>
    /\ UNCHANGED <<pureVars, simVars, hubVars>>

\* Step 3: generate_summary returns the generated text, or the generic sentence
\* when generation is unavailable or raises; it never raises itself
Summary ==
    /\ pc = "summary"
    /\ Step("summary")
    /\ \E text \in {"generated", "generic"} :
          analysis' = analysis @@ [ai_summary |-> text]
    /\ pc' = "persist"
    /\ UNCHANGED <<req, use_twelve_labs, players, env, tempdirs, download,
                   download_path, upload_kwargs, video_id, store, result, response,
                   raised, persist_failed, selected>>
    /\ UNCHANGED <<pureVars, simVars, hubVars>>

\* Persist with the highlights left unpersisted when the run returns (the
\* session is not committed): the result counts them, the store lacks them
PersistDeferred ==
    /\ pc = "persist"
    /\ Step("persist")
    /\ LET events == SelectEvents(analysis.detected_events)
           runs   == req.auto_create_highlights /\ analysis.detected_events # <<>>
       IN  /\ selected' = IF runs THEN events ELSE <<>>
           /\ \E fails \in (IF runs THEN FailSets(Len(events)) ELSE {{}}) :
                 LET out == CreateHighlights(store, ThePlayer, req.video_url,
                                req.match_name, req.auto_create_highlights, video_id,
                                analysis, events, fails)
                 IN  /\ result' = out.result
                     /\ persist_failed' = fails
    /\ pc' = "finally"
    /\ UNCHANGED <<req, use_twelve_labs, players, env, tempdirs, download,
                   download_path, upload_kwargs, video_id, analysis, store, response,
                   raised>>
    /\ UNCHANGED <<pureVars, simVars, hubVars>>

\* Persist with an error raised after the loop, while the result is built: the
\* except clause of the run is reached with the batch already persisted
PersistThenRaises ==
    /\ pc = "persist"
    /\ Step("persist")
    /\ LET events == SelectEvents(analysis.detected_events)
           runs   == req.auto_create_highlights /\ analysis.detected_events # <<>>
       IN  /\ selected' = IF runs THEN events ELSE <<>>
           /\ \E fails \in (IF runs THEN FailSets(Len(events)) ELSE {{}}) :
                 LET out == CreateHighlights(store, ThePlayer, req.video_url,
                                req.match_name, req.auto_create_highlights, video_id,
                                analysis, events, fails)
                 IN  /\ store' = out.store
                     /\ persist_failed' = fails
    /\ Raise("persist")
    /\ UNCHANGED <<req, use_twelve_labs, players, env, tempdirs, download,
                   download_path, upload_kwargs, video_id, analysis, result, response>>
    /\ UNCHANGED <<pureVars, simVars, hubVars>>

\* Step 4: the batch is selected and persisted, and the result is built; the
\* loop has no await, so it is one step
Persist ==
    /\ pc = "persist"
    /\ Step("persist")
    /\ LET events == SelectEvents(analysis.detected_events)
           runs   == req.auto_create_highlights /\ analysis.detected_events # <<>>
       IN  /\ selected' = IF runs THEN events ELSE <<>>
           /\ \E fails \in (IF runs THEN FailSets(Len(events)) ELSE {{}}) :
                 LET out == CreateHighlights(store, ThePlayer, req.video_url,
                                req.match_name, req.auto_create_highlights, video_id,
                                analysis, events, fails)
                 IN  /\ store' = out.store
                     /\ result' = out.result
                     /\ persist_failed' = fails
    /\ pc' = "finally"
    /\ UNCHANGED <<req, use_twelve_labs, players, env, tempdirs, download,
                   download_path, upload_kwargs, video_id, analysis, response, raised>>
    /\ UNCHANGED <<pureVars, simVars, hubVars>>

\* except Exception: return self._simulate_processing(...)
Fallback ==
    /\ pc = "except"
    /\ Step("simulate")
    /\ \E uuid \in UUIDs, fails \in FailSets(3) :
          LET out == _simulate_processing(store, ThePlayer, req.video_url,
                         req.match_name, req.auto_create_highlights, uuid, fails)
          IN  /\ store' = out.store
              /\ result' = out.result
              /\ persist_failed' = IF req.auto_create_highlights THEN fails ELSE {}
              /\ selected' = IF req.auto_create_highlights
                             THEN out.result.analysis.detected_events
                             ELSE <<>>
    /\ pc' = "finally"
    /\ UNCHANGED <<req, use_twelve_labs, players, env, tempdirs, download,
                   download_path, upload_kwargs, video_id, analysis, response, raised>>
    /\ UNCHANGED <<pureVars, simVars, hubVars>>

\* _cleanup_file(path): nothing when KEEP_YT_TEMP is set; else the file is
\* unlinked and its directory removed
_cleanup_file(dirs, path) ==
    IF env.KEEP_YT_TEMP THEN dirs
    ELSE [d \in DOMAIN dirs \ {path.dir} |-> dirs[d]]

\* finally: if download_path: await self._cleanup_file(download_path)
Finally ==
    /\ pc = "finally"
    /\ Step("cleanup")
    /\ tempdirs' = IF download_path # Nothing
                   THEN _cleanup_file(tempdirs, download_path)
                   ELSE tempdirs
    /\ pc' = "returned"
    /\ UNCHANGED <<req, use_twelve_labs, players, env, download,
                   download_path, upload_kwargs, video_id, analysis, store, result,
                   response, raised, persist_failed, selected>>
    /\ UNCHANGED <<pureVars, simVars, hubVars>>

(***************************************************************************)
(* The endpoint process_video of main.py after the run has returned: it    *)
(* awaits notify_highlight_added and answers with the run's result.        *)
(***************************************************************************)
RequestTask == 1

HighlightAddedEnvelope ==
    [type |-> "highlight_added",
     data |-> [player_id        |-> req.player_id,
               highlights_count |-> result.highlights_created,
               action           |-> "video_processed"]]

NotifyHighlightAdded ==
    /\ pc = "returned"
    /\ Step("notify")
    /\ StartNotify(RequestTask, HighlightAddedEnvelope,
                   NotifyScopes("highlight_added", req.player_id))
    /\ pc' = "notifying"
    /\ UNCHANGED <<req, use_twelve_labs, players, env, tempdirs, download,
                   download_path, upload_kwargs, video_id, analysis, store, result,
                   response, raised, persist_failed, selected>>
    /\ UNCHANGED <<pureVars, simVars>>

\* a send of the request's notification returns or raises
NotifySend ==
    /\ pc = "notifying"
    /\ (SendOk(RequestTask) \/ SendFail(RequestTask))
    /\ UNCHANGED <<pureVars, pipeVars, simVars>>

\* return result; an exception of the notification becomes a 500
Respond ==
    /\ pc = "notifying"
    /\ task[RequestTask].pc \in {"done", "error"}
    /\ response' = IF task[RequestTask].pc = "done"
                   THEN [status_code |-> 200, body |-> result]
                   ELSE [status_code |-> 500]
    /\ pc' = "done"
    /\ UNCHANGED <<req, use_twelve_labs, players, env, tempdirs, download,
                   download_path, upload_kwargs, video_id, analysis, store, result,
                   steps, raised, persist_failed, selected>>
    /\ UNCHANGED <<pureVars, simVars, hubVars>>

(***************************************************************************)
(* Initial states and specifications                                       *)
(***************************************************************************)
PlayerTable == ("p1" :> "Test Player")

PureIdle == /\ ev = Nothing
            /\ hl = Nothing
            /\ call = Nothing
            /\ scenario = Nothing

PipeIdle ==
    /\ pc = "idle"
    /\ req = Nothing
    /\ use_twelve_labs = FALSE
    /\ players = PlayerTable
    /\ env = [KEEP_YT_TEMP |-> FALSE, YOUTUBE_MAX_DOWNLOAD_SECONDS |-> DefaultMaxSeconds]
    /\ tempdirs = NoDirs
    /\ download = Nothing
    /\ download_path = Nothing
    /\ upload_kwargs = Nothing
    /\ video_id = None
    /\ analysis = Nothing
    /\ store = <<>>
    /\ result = Nothing
    /\ response = Nothing
    /\ steps = <<>>
    /\ raised = None
    /\ persist_failed = {}
    /\ selected = <<>>

SimIdle == sim_runs = [i \in 1..2 |-> Nothing]

HubHistoryEmpty ==
    /\ send_failed = {}
    /\ unsubscribed = {}
    /\ late_sends = {}

HubEmpty ==
    /\ active_connections = [c \in Channels |-> {}]
    /\ player_connections = [p \in {} |-> {}]
    /\ handler = [w \in WebSockets |-> IdleHandler]
    /\ alive = [w \in WebSockets |-> FALSE]
    /\ inbox = [w \in WebSockets |-> <<>>]
    /\ task = [t \in Tasks |-> IdleTask]
    /\ HubHistoryEmpty

\* ---- the synthesizer on one drawn event
SynthTimes == {<<Sec(75), Sec(90)>>, <<3, 20>>, <<131, 131>>}

SynthEvents ==
    {[type |-> t, confidence |-> c, timestamp |-> [start |-> tm[1], end |-> tm[2]],
      description |-> "drawn", video_id |-> "asset-1", clip_id |-> None] :
        t \in EventTypes, c \in 0..1000, tm \in SynthTimes}

InitSynth ==
    /\ ev \in SynthEvents
    /\ hl = Nothing
    /\ call = Nothing
    /\ scenario = Nothing
    /\ PipeIdle /\ SimIdle /\ HubEmpty

Synthesize ==
    /\ hl = Nothing
    /\ hl' = _create_highlight_from_event(ev, "p1", PlayerTable["p1"], UrlDirect,
                                          "El Clasico", ev.video_id, "h1")
    /\ UNCHANGED <<ev, call, scenario, pipeVars, simVars, hubVars>>

NextSynth == Synthesize

SpecSynth == InitSynth /\ [][NextSynth]_vars

\* ---- one request to POST /api/process-video; the hub holds a live subscriber
\* ---- of the player's scope and a subscriber of "highlights" whose client end
\* ---- has closed without the endpoint having noticed yet
Requests ==
    [player_id : {"p1", "ghost"}, video_url : VideoUrls, match_name : {"El Clasico"},
     auto_create_highlights : BOOLEAN]

\* what the two subscribers have received when the request arrives
PipeInbox == [w \in WebSockets |-> <<"connected">>]

InitPipe ==
    /\ PureIdle /\ SimIdle
    /\ pc = "start"
    /\ req \in Requests
    /\ use_twelve_labs \in BOOLEAN
    /\ players = PlayerTable
    /\ env \in [KEEP_YT_TEMP : BOOLEAN, YOUTUBE_MAX_DOWNLOAD_SECONDS : MaxSecondsSettings]
    /\ tempdirs = NoDirs
    /\ download = Nothing
    /\ download_path = Nothing
    /\ upload_kwargs = Nothing
    /\ video_id = None
    /\ analysis = Nothing
    /\ store = <<>>
    /\ result = Nothing
    /\ response = Nothing
    /\ steps = <<>>
    /\ raised = None
    /\ persist_failed = {}
    /\ selected = <<>>
    /\ active_connections = [c \in Channels |-> IF c = "highlights" THEN {2} ELSE {}]
    /\ player_connections = ("p1" :> {1})
    /\ handler = [w \in WebSockets |->
                    CASE w = 1 -> [pc |-> "receive", scope |-> Player("p1"), pings |-> 0]
                      [] w = 2 -> [pc |-> "receive", scope |-> Chan("highlights"), pings |-> 0]
                      [] OTHER    -> IdleHandler]
    /\ alive = [w \in WebSockets |-> w = 1]
    /\ inbox = PipeInbox
    /\ task = [t \in Tasks |-> IdleTask]
    /\ HubHistoryEmpty

NextPipe ==
    \/ Lookup
    \/ Unconfigured
    \/ Resolve
    \/ DownloadBegin
    \/ DownloadOk
    \/ DownloadFail
    \/ TranscodeOk
    \/ TranscodeFail
    \/ Cancel
    \/ UploadBegin
    \/ PollPending
    \/ Wake
    \/ UploadOk
    \/ UploadFail
    \/ AnalyzeOk
    \/ AnalyzeFail
    \/ Summary
    \/ Persist
    \/ Fallback
    \/ Finally
    \/ NotifyHighlightAdded
    \/ NotifySend
    \/ Respond

SpecPipe == InitPipe /\ [][NextPipe]_vars

\* the request's task is alone on the event loop and its awaits are resumed:
\* whenever it can take a step it takes one
SpecPipeFair == InitPipe /\ [][NextPipe]_vars /\ WF_vars(NextPipe)

\* ---- the same request while the two subscribers' clients may close and their
\* ---- endpoints notice it
NextPipeLive ==
    \/ NextPipe
    \/ \E w \in WebSockets : ClientClose(w)
    \/ \E w \in WebSockets : ReceiveDisconnect(w)

SpecPipeLive == InitPipe /\ [][NextPipeLive]_vars

\* ---- two calls of _simulate_processing for the same player and request
InitSim ==
    /\ PureIdle /\ HubEmpty
    /\ sim_runs = [i \in 1..2 |-> Nothing]
    /\ pc = "idle"
    /\ req \in {r \in Requests : r.player_id \in DOMAIN PlayerTable}
    /\ use_twelve_labs = FALSE
    /\ players = PlayerTable
    /\ env = [KEEP_YT_TEMP |-> FALSE, YOUTUBE_MAX_DOWNLOAD_SECONDS |-> DefaultMaxSeconds]
    /\ tempdirs = NoDirs
    /\ download = Nothing
    /\ download_path = Nothing
    /\ upload_kwargs = Nothing
    /\ video_id = None
    /\ analysis = Nothing
    /\ store = <<>>
    /\ result = Nothing
    /\ response = Nothing
    /\ steps = <<>>
    /\ raised = None
    /\ persist_failed = {}
    /\ selected = <<>>

SimulateCall(i) ==
    /\ sim_runs[i] = Nothing
    /\ \A j \in 1..(i - 1) : sim_runs[j] # Nothing
    /\ \E uuid \in UUIDs, fails \in FailSets(3) :
          LET out == _simulate_processing(store, ThePlayer, req.video_url,
                         req.match_name, req.auto_create_highlights, uuid, fails)
          IN  /\ store' = out.store
              /\ sim_runs' = [sim_runs EXCEPT ![i] = out.result]
    /\ UNCHANGED <<pc, req, use_twelve_labs, players, env, tempdirs, download,
                   download_path, upload_kwargs, video_id, analysis, result, response,
                   steps, raised, persist_failed, selected>>
    /\ UNCHANGED <<pureVars, hubVars>>

NextSim == \E i \in 1..2 : SimulateCall(i)

SpecSim == InitSim /\ [][NextSim]_vars

\* ---- the hub under connects, client closes, client messages and notifier calls;
\* ---- one notifier method of each shape: a player's scope and a channel, a
\* ---- player's scope alone, a channel alone
HubKinds == {"highlight_added", "report_generated", "stats_update"}

InitHub ==
    /\ PureIdle /\ PipeIdle /\ SimIdle
    /\ HubEmpty

NextHub ==
    \/ \E w \in WebSockets, scope \in EndpointScopes : Connect(w, scope)
    \/ \E w \in WebSockets : AcceptOk(w)
    \/ \E w \in WebSockets : AcceptFail(w)
    \/ \E w \in WebSockets : ReplyOk(w)
    \/ \E w \in WebSockets : ReplyDisconnect(w)
    \/ \E w \in WebSockets : ReplyError(w)
    \/ \E w \in WebSockets : Receive(w)
    \/ \E w \in WebSockets : ReceiveDisconnect(w)
    \/ \E w \in WebSockets : ClientClose(w)
    \/ \E t \in Tasks, kind \in HubKinds, pid \in PlayerIds :
          Notify(t, kind, pid) /\ UNCHANGED <<pureVars, pipeVars, simVars>>
    \/ \E t \in Tasks : SendOk(t) /\ UNCHANGED <<pureVars, pipeVars, simVars>>
    \/ \E t \in Tasks : SendFail(t) /\ UNCHANGED <<pureVars, pipeVars, simVars>>

SpecHub == InitHub /\ [][NextHub]_vars

\* ---- one notifier call on a hub whose websockets are subscribed, each to one
\* ---- of the scopes the endpoints of main.py offer, and are waiting for a
\* ---- client message; nothing connects or disconnects meanwhile
NotifyCalls ==
    {[kind |-> k, player_id |-> "p1"] :
        k \in {"player_update", "highlight_added", "analysis_complete",
               "report_generated"}}
    \cup {[kind |-> "highlight_added", player_id |-> None],
          [kind |-> "stats_update", player_id |-> None]}

SubscriberScopes ==
    {Chan("global"), Chan("highlights"), Chan("analytics"), Player("p1")}

\* the registries and endpoint states when websocket w is subscribed to sc[w]
Subscribed(sc) ==
    /\ active_connections = [c \in Channels |-> {w \in WebSockets : sc[w] = Chan(c)}]
    /\ player_connections =
          IF \E w \in WebSockets : sc[w].kind = "player"
          THEN [p \in PlayerIds |-> {w \in WebSockets : sc[w] = Player(p)}]
          ELSE [p \in {} |-> {}]
    /\ handler = [w \in WebSockets |-> [pc |-> "receive", scope |-> sc[w], pings |-> 0]]
    /\ inbox = [w \in WebSockets |->
                   IF sc[w] = Chan("global") THEN <<>> ELSE <<"connected">>]

InitNotify ==
    /\ ev = Nothing /\ hl = Nothing /\ scenario = Nothing
    /\ call \in NotifyCalls
    /\ PipeIdle /\ SimIdle
    /\ \E sc \in [WebSockets -> SubscriberScopes] : Subscribed(sc)
    /\ alive \in [WebSockets -> BOOLEAN]
    /\ task = [t \in Tasks |-> IdleTask]
    /\ HubHistoryEmpty

NextNotify ==
    \/ Notify(1, call.kind, call.player_id) /\ UNCHANGED <<pureVars, pipeVars, simVars>>
    \/ SendOk(1) /\ UNCHANGED <<pureVars, pipeVars, simVars>>
    \/ SendFail(1) /\ UNCHANGED <<pureVars, pipeVars, simVars>>

SpecNotify == InitNotify /\ [][NextNotify]_vars

\* ---- one request to POST /api/analyze-video on a hub whose websockets are
\* ---- subscribed and waiting for a client message
AnalyzeRequests == [player_id : {"p1", "ghost"}, video_url : {UrlDirect}]

\* VideoAnalysisService.supported_events
supported_events == <<"goal", "assist", "shot", "pass", "dribble", "tackle",
                      "interception", "clearance", "save", "foul", "offside">>

\* the mock result VideoAnalysisService.analyze_video falls back to
MockAnalysis ==
    [video_url |-> req.video_url, player_id |-> req.player_id,
     analysis_id |-> "analysis_mock", status |-> "completed",
     detected_events |->
        <<[type |-> "dribble", timestamp |-> [start |-> Sec(120), end |-> Sec(135)],
           confidence |-> 950, description |-> "Successful dribble past defender"],
          [type |-> "pass", timestamp |-> [start |-> Sec(140), end |-> Sec(145)],
           confidence |-> 920, description |-> "Through ball to teammate"]>>,
     key_moments |->
        <<[time |-> Sec(125), description |-> "Change of direction", importance |-> 900],
          [time |-> Sec(142), description |-> "Vision and execution", importance |-> 850]>>]

InitEndpoint ==
    /\ PureIdle /\ SimIdle
    /\ pc = "start"
    /\ req \in AnalyzeRequests
    /\ use_twelve_labs \in BOOLEAN
    /\ players = PlayerTable
    /\ env = [KEEP_YT_TEMP |-> FALSE, YOUTUBE_MAX_DOWNLOAD_SECONDS |-> DefaultMaxSeconds]
    /\ tempdirs = NoDirs
    /\ download = Nothing /\ download_path = Nothing /\ upload_kwargs = Nothing
    /\ video_id = None /\ analysis = Nothing /\ store = <<>> /\ result = Nothing
    /\ response = Nothing /\ steps = <<>> /\ raised = None
    /\ persist_failed = {} /\ selected = <<>>
    /\ \E sc \in [WebSockets -> SubscriberScopes] : Subscribed(sc)
    /\ alive \in [WebSockets -> BOOLEAN]
    /\ task = [t \in Tasks |-> IdleTask]
    /\ HubHistoryEmpty

\* player = get_player_by_id(...); if not player: raise HTTPException(404)
\* inside the try: except ValueError does not match it, except Exception does,
\* and raises HTTPException(500, "Analysis failed: ...")
CheckPlayer ==
    /\ pc = "start"
    /\ Step("lookup")
    /\ IF req.player_id \in DOMAIN players
       THEN pc' = "analyze" /\ response' = response /\ raised' = raised
       ELSE pc' = "failed" /\ response' = [status_code |-> 500]
            /\ raised' = "HTTPException(404)"
    /\ UNCHANGED <<req, use_twelve_labs, players, env, tempdirs, download,
                   download_path, upload_kwargs, video_id, analysis, store, result,
                   persist_failed, selected>>
    /\ UNCHANGED <<pureVars, simVars, hubVars>>

\* video_analysis_service.analyze_video: the service's analysis when it is
\* configured and nothing raises, the mock result otherwise; then
\* index_video_content
ServiceAnalyze ==
    /\ pc = "analyze"
    /\ Step("analyze")
    /\ \/ /\ use_twelve_labs
          /\ \E sc \in Scenarios :
                analysis' = analyze_video("asset-1", ThePlayer.name, supported_events, sc)
                            @@ [analysis_id |-> "twelvelabs_asset-1",
                                video_url |-> req.video_url, player_id |-> req.player_id]
       \/ analysis' = MockAnalysis
    /\ pc' = "analyzed"
    /\ UNCHANGED <<req, use_twelve_labs, players, env, tempdirs, download,
                   download_path, upload_kwargs, video_id, store, result, response,
                   raised, persist_failed, selected>>
    /\ UNCHANGED <<pureVars, simVars, hubVars>>

AnalysisCompleteEnvelope ==
    [type |-> "analysis_complete",
     analysis_id |-> analysis.analysis_id,
     player_id |-> req.player_id,
     results |-> [detected_events |-> Len(analysis.detected_events),
                  key_moments |-> Len(analysis.key_moments),
                  status |-> "completed"]]

\* await data_notifier.notify_analysis_complete(...)
NotifyAnalysisComplete ==
    /\ pc = "analyzed"
    /\ Step("notify")
    /\ StartNotify(RequestTask, AnalysisCompleteEnvelope,
                   NotifyScopes("analysis_complete", req.player_id))
    /\ pc' = "notifying"
    /\ UNCHANGED <<req, use_twelve_labs, players, env, tempdirs, download,
                   download_path, upload_kwargs, video_id, analysis, store, result,
                   response, raised, persist_failed, selected>>
    /\ UNCHANGED <<pureVars, simVars>>

\* return {"status": "success", "analysis": ...}; an exception of the
\* notification becomes a 500
AnalyzeRespond ==
    /\ pc = "notifying"
    /\ task[RequestTask].pc \in {"done", "error"}
    /\ response' = IF task[RequestTask].pc = "done"
                   THEN [status_code |-> 200,
                         body |-> [status |-> "success", analysis |-> analysis]]
                   ELSE [status_code |-> 500]
    /\ pc' = "done"
    /\ UNCHANGED <<req, use_twelve_labs, players, env, tempdirs, download,
                   download_path, upload_kwargs, video_id, analysis, store, result,
                   steps, raised, persist_failed, selected>>
    /\ UNCHANGED <<pureVars, simVars, hubVars>>

NextEndpoint ==
    \/ CheckPlayer
    \/ ServiceAnalyze
    \/ NotifyAnalysisComplete
    \/ NotifySend
    \/ AnalyzeRespond

SpecEndpoint == InitEndpoint /\ [][NextEndpoint]_vars

\* ---- one call of analyze_video on an indexed asset; the service's answers
\* ---- are drawn from a wider family than the pipeline's
AnalyzeSeeds == 0..39
AnalyzeScenarios == [n : ItemCounts, seed : AnalyzeSeeds]

InitAnalyze ==
    /\ ev = Nothing /\ hl = Nothing /\ call = Nothing
    /\ scenario \in AnalyzeScenarios
    /\ PipeIdle /\ SimIdle /\ HubEmpty

AnalyzeCall ==
    /\ analysis = Nothing
    /\ analysis' = analyze_video("asset-1", PlayerTable["p1"], PipelineEventTypes,
                                 scenario)
    /\ UNCHANGED <<pc, req, use_twelve_labs, players, env, tempdirs, download,
                   download_path, upload_kwargs, video_id, store, result, response,
                   steps, raised, persist_failed, selected>>
    /\ UNCHANGED <<pureVars, simVars, hubVars>>

NextAnalyze == AnalyzeCall

SpecAnalyze == InitAnalyze /\ [][NextAnalyze]_vars

(***************************************************************************)
(* Properties                                                              *)
(***************************************************************************)
\* the run has returned from process_video_for_player
Returned == pc \in {"returned", "notifying", "done"}

\* the run took the simulated branch: the service is unconfigured, or a step raised
FellBack == ~use_twelve_labs \/ raised # None

\* C1: for every event type and confidence, the type of the synthesized
\* highlight is strength when the event type is goal, assist, dribble or pass
\* and the confidence exceeds 0.75; otherwise weakness when the event type is
\* foul or offside or the confidence is below 0.6; otherwise neutral.  Nothing
\* else of the event enters; a foul at 0.5 is a weakness, a pass at 0.8 a strength.
C1_Classification ==
    hl # Nothing =>
        /\ hl.type = IF ev.type \in {"goal", "assist", "dribble", "pass"}
                        /\ ev.confidence > 750
                     THEN "strength"
                     ELSE IF ev.type \in {"foul", "offside"} \/ ev.confidence < 600
                     THEN "weakness"
                     ELSE "neutral"
        /\ (ev.type = "foul" /\ ev.confidence = 500 => hl.type = "weakness")
        /\ (ev.type = "pass" /\ ev.confidence = 800 => hl.type = "strength")

C1_Witness ==
    /\ hl # Nothing
    /\ ev.type = "foul" /\ ev.confidence = 500
    /\ hl.type = "weakness"

\* C2: on every path of a run (real analysis, fallback, service unconfigured,
\* with or without persistence failures) the highlights the run has put into
\* the store, and the highlights_created and highlights it reports, number at
\* most 20.
C2_AtMostTwenty ==
    /\ Len(store) <= 20
    /\ result # Nothing => /\ result.highlights_created <= 20
                           /\ Len(result.highlights) <= 20

C2_Witness ==
    /\ Returned
    /\ ~FellBack
    /\ Len(analysis.detected_events) > 20
    /\ result.highlights_created = 20

\* C3: when real analysis detects more than 20 events, highlights are to be
\* created and no persistence fails, exactly 20 highlights are created, one for
\* each event of the batch in order, and the batch is a top 20 of the detected
\* events: each of its events is a detected event, and every detected event
\* whose confidence exceeds the lowest confidence of the batch is in the batch.
C3_TopTwenty ==
    (/\ Returned
     /\ ~FellBack
     /\ req.auto_create_highlights
     /\ persist_failed = {}
     /\ Len(analysis.detected_events) > 20)
    => LET detected == analysis.detected_events
           Count(seq, e) == Cardinality({i \in 1..Len(seq) : seq[i] = e})
           Above(seq, c) == Cardinality({i \in 1..Len(seq) : seq[i].confidence > c})
       IN  /\ Len(store) = 20
           /\ result.highlights_created = 20
           /\ Len(selected) = 20
           /\ \A k \in 1..20 :
                 /\ store[k].description = selected[k].description
                 /\ store[k].timestamp.start = PyRound(selected[k].timestamp.start)
                 /\ Count(selected, selected[k]) <= Count(detected, selected[k])
                 /\ Above(detected, selected[k].confidence)
                       = Above(selected, selected[k].confidence)

C3_Witness ==
    /\ pc = "done"
    /\ ~FellBack
    /\ req.auto_create_highlights
    /\ persist_failed = {}
    /\ Len(analysis.detected_events) > 20
    /\ Len(store) = 20
    /\ \E i \in 1..Len(analysis.detected_events) :
          analysis.detected_events[i].confidence < selected[20].confidence

\* C4: after process_video_for_player has ended, by returning or by being
\* cancelled, the temporary directory of the run is gone, unless KEEP_YT_TEMP is
\* set.
C4_TempRemoved ==
    (pc \in {"returned", "notifying", "done", "cancelled"} /\ ~env.KEEP_YT_TEMP)
    => tempdirs = NoDirs

\* C5: when the service is unconfigured or a download, upload or analysis step
\* raised, the run returns status success with the simulated events goal
\* 75-90 s at 0.92, assist 180-195 s at 0.88 and dribble 260-275 s at 0.84; if
\* highlights are to be created and no persistence fails, 3 are created, the
\* first titled "<player name> - Goal", of type strength, of duration "0:15".
C5_Fallback ==
    (Returned /\ FellBack)
    => /\ result.status = "success"
       /\ [i \in 1..Len(result.analysis.detected_events) |->
              LET e == result.analysis.detected_events[i]
              IN  <<e.type, e.timestamp.start, e.timestamp.end, e.confidence>>]
          = << <<"goal", Sec(75), Sec(90), 920>>,
               <<"assist", Sec(180), Sec(195), 880>>,
               <<"dribble", Sec(260), Sec(275), 840>> >>
       /\ (req.auto_create_highlights /\ persist_failed = {})
          => /\ result.highlights_created = 3
             /\ Len(store) = 3
             /\ store[1].title = players[req.player_id] \o " - Goal"
             /\ store[1].type = "strength"
             /\ store[1].duration = "0:15"

C5_Witness ==
    /\ pc = "done"
    /\ raised = "upload"
    /\ result.status = "success"
    /\ Len(store) = 3
    /\ store[1].title = "Test Player - Goal"

\* C6: two calls of the fallback for the same player and the same request
\* return the same simulated analysis and the same asset id.
C6_Deterministic ==
    (sim_runs[1] # Nothing /\ sim_runs[2] # Nothing)
    => /\ sim_runs[1].analysis = sim_runs[2].analysis
       /\ sim_runs[1].video_id = sim_runs[2].video_id

C8_NotFoundNoEffect ==
    (pc = "failed" \/ req.player_id \notin DOMAIN players)
    => /\ pc \in {"start", "failed"}
       /\ pc = "failed" => /\ response = [status_code |-> 404]
                           /\ steps = <<"lookup">>
       /\ store = <<>>
       /\ tempdirs = NoDirs
       /\ download = Nothing /\ download_path = Nothing
       /\ upload_kwargs = Nothing /\ video_id = None
       /\ analysis = Nothing /\ result = Nothing
       /\ inbox = PipeInbox
       /\ \A t \in Tasks : task[t] = IdleTask

C8_Witness ==
    /\ pc = "failed"
    /\ req.player_id = "ghost"
    /\ response.status_code = 404

C10_NoLateSend == late_sends = {}

\* C11: once a notifier call in which a send to a websocket raised has ended,
\* it has returned normally and that websocket is not in the registry of the
\* scope in which the send raised.
C11_FailedSubscriberDropped ==
    \A t \in Tasks :
        (task[t].pc \in {"done", "error"} /\ task[t].failed # {})
        => /\ task[t].pc = "done"
           /\ \A f \in task[t].failed : f.w \notin Reg(Hub, f.scope)

\* C12: a notifier call never ends with an error, whatever connects and
\* disconnects happen on the scope while it awaits its sends.
C12_PublishCompletes == \A t \in Tasks : task[t].pc # "error"

\* the websocket has been sent the envelope of the call
Received(w) == \E i \in 1..Len(inbox[w]) : inbox[w][i] = call.kind

\* websockets subscribed to the scope whose client end is open
LiveSubscribers(scope) == {w \in WebSockets : handler[w].scope = scope /\ alive[w]}

\* C13: when a notifier call that carries a player id has returned, every live
\* subscriber of that player's scope has received the event, and the call
\* published it to a broad channel as well, every live subscriber of which has
\* received it.
C13_PlayerAndBroadChannel ==
    (task[1].pc = "done" /\ call.player_id # None)
    => LET scopes == NotifyScopes(call.kind, call.player_id)
       IN  /\ \A w \in LiveSubscribers(Player(call.player_id)) : Received(w)
           /\ \E i \in 1..Len(scopes) :
                 /\ scopes[i].kind = "channel"
                 /\ \A w \in LiveSubscribers(scopes[i]) : Received(w)

InSteps(name) == \E i \in 1..Len(steps) : steps[i] = name

\* the run is in its upload step with the downloaded file as the argument
UploadsDownload ==
    /\ pc \in {"upload", "indexing", "sleeping"}
    /\ "video_file_path" \in DOMAIN upload_kwargs

SimulatedIds == {"simulated-" \o u : u \in UUIDs}

C20_UploadTerminates ==
    (pc \in {"upload", "indexing", "sleeping"})
    ~> (pc \in {"done", "failed", "cancelled"})

\* the string is minutes ":" two-digit seconds and denotes n seconds
DenotesSeconds(str, n) ==
    \E m \in 0..3, ss \in 0..59 :
        /\ str = ToString(m) \o ":" \o Pad2(ss)
        /\ 60 * m + ss = n

\* C16: every highlight a run has stored, from fallback events, clip-shaped
\* and single-range service results alike, has timestamp.end >= timestamp.start
\* and a duration string M:SS, SS in 0..59, that denotes end - start seconds.
C16_DurationMatchesRange ==
    \A i \in 1..Len(store) :
        /\ store[i].timestamp.end >= store[i].timestamp.start
        /\ DenotesSeconds(store[i].duration,
                          store[i].timestamp.end - store[i].timestamp.start)

C16_Witness ==
    /\ pc = "done"
    /\ raised = None
    /\ \E i \in 1..Len(store) :
          /\ store[i].timestamp.end - store[i].timestamp.start \in 60..69
          /\ store[i].duration = "1:0"
                \o ToString(store[i].timestamp.end - store[i].timestamp.start - 60)
    /\ \E i \in 1..Len(store) : store[i].duration \in {"0:04", "0:05", "0:06"}

\* C17: on the real and on the simulated branch, every highlight a run has
\* stored carries the video URL of the priority rule: the event's own clip URL
\* if it has one, else the embed URL derived from a hosted-platform source
\* link with a video id, else the source reference.
C17_VideoUrlPriority ==
    Returned
    => LET ok == {i \in 1..Len(selected) : i \notin persist_failed}
           Place(i) == Cardinality({j \in ok : j <= i})
       IN  \A i \in ok :
              Place(i) <= Len(store)
              => store[Place(i)].video_url
                 = _resolve_event_video_url(selected[i], req.video_url)

\* the asset id in the thumbnail of every stored highlight is id
AllFromAsset(id) == \A i \in 1..Len(store) : store[i].thumbnail[1] = id

StepRank(name) ==
    CASE name = "lookup"      -> 1
      [] name = "acquire"     -> 2
      [] name = "trim"        -> 3
      [] name = "trim_failed" -> 3
      [] name = "upload"      -> 4
      [] name = "analyze"     -> 5
      [] name = "summary"     -> 6
      [] name = "persist"     -> 7
      [] name = "simulate"    -> 7
      [] name = "cleanup"     -> 8
      [] name = "notify"      -> 9

Registered ==
    UNION {active_connections[c] : c \in DOMAIN active_connections}
    \cup UNION {player_connections[p] : p \in DOMAIN player_connections}

\* C21: a websocket whose endpoint handler has ended, on a client disconnect
\* or on a failed send of its own, is in no channel or player registry.
C21_EndedNotRegistered ==
    \A w \in WebSockets : handler[w].pc = "ended" => w \notin Registered

\* C22: the first envelope sent to a websocket connected to a scoped channel (a
\* player id, highlights, analytics) is "connected": no published event is
\* delivered to it before, also when a publish to its scope overlaps the connect.
C22_ConnectedFirst ==
    \A w \in WebSockets :
        (handler[w].pc # "idle" /\ handler[w].scope # Chan("global") /\ inbox[w] # <<>>)
        => inbox[w][1] = "connected"

\* a publish has begun its send to the websocket while the "connected" send
\* is still pending
C22_Witness ==
    \E w \in WebSockets, t \in Tasks :
        /\ handler[w].scope = Chan("highlights")
        /\ handler[w].pc = "greet"
        /\ task[t].pc = "send" /\ task[t].cur = w
        /\ task[t].envelope.type = "highlight_added"

\* the scored matches of the call: query qi, item j, and c the clip of a
\* clip-shaped item (1 for an item that is a single range)
Matches ==
    {m \in (1..Len(SearchPlan(PipelineEventTypes))) \X (1..scenario.n) \X (1..2) :
        LET item == ServiceItem(scenario.seed, m[1], m[2])
        IN  m[3] <= (IF "clips" \in DOMAIN item THEN Len(item.clips) ELSE 1)}

MatchScore(m) == ServiceItem(scenario.seed, m[1], m[2]).score

MatchStart(m) ==
    LET item == ServiceItem(scenario.seed, m[1], m[2])
    IN  IF "clips" \in DOMAIN item THEN item.clips[m[3]].start ELSE item.start

\* the detected event is the one made from match m
EventOf(e, m) ==
    /\ e.type = SearchPlan(PipelineEventTypes)[m[1]].event_type
    /\ e.timestamp.start = MatchStart(m)
    /\ e.confidence = MatchScore(m)

\* scores are held in tenths and confidences in thousandths: score / 100 has
\* the digits of the score
RetainedAsEvents ==
    LET events == analysis.detected_events
        kept   == {m \in Matches : MatchScore(m) > 700}
    IN  /\ Len(events) = Cardinality(kept)
        /\ \A m \in kept : \E i \in 1..Len(events) : EventOf(events[i], m)
        /\ \A i \in 1..Len(events) :
              /\ \E m \in kept : EventOf(events[i], m)
              /\ events[i].confidence > 700 /\ events[i].confidence <= 1000

\* C23 as stated: a match becomes a detected event exactly when its score is
\* above 70, with confidence score/100 in (0.7, 1], and the result holds one key
\* moment for each detected event.
C23_KeyMomentPerEvent ==
    analysis # Nothing
    => /\ RetainedAsEvents
       /\ Len(analysis.key_moments) = Len(analysis.detected_events)

\* C23, amended: a match becomes a detected event exactly when its score is
\* above 70, with confidence score/100 in (0.7, 1]; the result holds the key
\* moments of the 10 retained matches of highest importance score/100 (all of
\* them when there are 10 or fewer), in descending order of importance.
C23_TopTenKeyMoments ==
    analysis # Nothing
    => LET events  == analysis.detected_events
           moments == analysis.key_moments
           Above(x) == Cardinality({i \in 1..Len(events) : events[i].confidence > x})
       IN  /\ RetainedAsEvents
           /\ Len(moments) = (IF Len(events) < 10 THEN Len(events) ELSE 10)
           /\ \A k \in 1..Len(moments) :
                 /\ \E i \in 1..Len(events) :
                       /\ moments[k].importance = events[i].confidence
                       /\ moments[k].time = events[i].timestamp.start
                       /\ moments[k].event_type = events[i].type
                 /\ Above(moments[k].importance) < k
                 /\ k > 1 => moments[k - 1].importance >= moments[k].importance

\* a match with score exactly 70 is dropped while others are retained, and
\* more than 10 are retained
C23_Witness ==
    /\ analysis # Nothing
    /\ \E m \in Matches : MatchScore(m) = 700
    /\ Len(analysis.detected_events) > 10
    /\ Len(analysis.key_moments) = 10

\* C24: for every confidence in [0, 1] the confidence percent of the
\* highlight's AI insight is the integer in 0..100 nearest to confidence * 100;
\* a confidence of 0.875 gives 88.
C24_PercentRounded ==
    hl # Nothing
    => LET c   == ev.confidence
           pct == hl.ai_insights.confidence
       IN  /\ pct \in 0..100
           /\ 10 * pct - c <= 5 /\ c - 10 * pct <= 5
           /\ c = 875 => pct = 88

\* C25: a publish attempts one send to each websocket that is in the target
\* scope's set when the publish starts: it never ends having left one of them
\* without an attempt, whatever sends failed before, and it sends to no
\* websocket outside the scope.
C25_EverySubscriberAttempted ==
    \A t \in Tasks :
        /\ task[t].pc # "idle" => task[t].skipped = {}
        /\ task[t].pc = "send" => handler[task[t].cur].scope = task[t].scope

\* C26: when a notifier call has returned, every live websocket subscribed to
\* the global channel has received its envelope, whichever method was called.
C26_GlobalReceivesAll ==
    task[1].pc = "done"
    => \A w \in LiveSubscribers(Chan("global")) : Received(w)

\* C27: an analyze-video request for a player id that does not exist is
\* answered 404, not 500, runs no analysis and publishes no notification.
C27_UnknownPlayerNotFound ==
    (req.player_id \notin DOMAIN players /\ pc \in {"failed", "done"})
    => /\ response.status_code = 404
       /\ analysis = Nothing
       /\ ~InSteps("notify")
       /\ \A w \in WebSockets : inbox[w] \in {<<>>, <<"connected">>}

\* C28: a process-video request that got past the player check and has been
\* answered has made one notify_highlight_added call, after the run returned,
\* which went through the player's scope and the highlights channel; the
\* envelope's highlights_count is the run's highlights_created, 0 included.  A
\* request that failed with player-not-found has published nothing.
C28_OnePublishPerRun ==
    /\ pc = "failed" => ~InSteps("notify") /\ task[RequestTask] = IdleTask
    /\ InSteps("notify")
       => /\ Cardinality({i \in 1..Len(steps) : steps[i] = "notify"}) = 1
          /\ result # Nothing
    /\ task[RequestTask].pc = "send"
       => /\ task[RequestTask].envelope = HighlightAddedEnvelope
          /\ task[RequestTask].envelope.data.highlights_count = result.highlights_created
          /\ task[RequestTask].scope \in {Player(req.player_id), Chan("highlights")}
    /\ pc = "done"
       => /\ InSteps("notify")
          /\ task[RequestTask].pc # "idle"
          /\ task[RequestTask].todo = <<>>

\* C29: on the real-analysis branch no highlight is classified weakness: every
\* event the run synthesizes has a type among goal, assist, dribble, pass, shot
\* and tackle and a confidence above 0.7, and its highlight is strength when
\* the type is goal, assist, dribble or pass and the confidence exceeds 0.75,
\* neutral otherwise.
C29_NoWeaknessOnRealBranch ==
    (Returned /\ ~FellBack)
    => LET ok == {i \in 1..Len(selected) : i \notin persist_failed}
           Place(i) == Cardinality({j \in ok : j <= i})
       IN  /\ \A i \in 1..Len(selected) :
                 /\ selected[i].type \in {"goal", "assist", "dribble", "pass",
                                          "shot", "tackle"}
                 /\ selected[i].confidence > 700
           /\ \A i \in 1..Len(store) : store[i].type \in {"strength", "neutral"}
           /\ \A i \in ok :
                 Place(i) <= Len(store)
                 => store[Place(i)].type
                    = IF selected[i].type \in {"goal", "assist", "dribble", "pass"}
                         /\ selected[i].confidence > 750
                      THEN "strength" ELSE "neutral"

C29_Witness ==
    /\ pc = "done"
    /\ ~FellBack
    /\ \E i \in 1..Len(store) : store[i].type = "strength"
    /\ \E i \in 1..Len(store) :
          /\ store[i].type = "neutral"
          /\ store[i].tags[1] \in {"Goal", "Assist", "Dribble", "Pass"}
    /\ \E i \in 1..Len(selected) : selected[i].confidence <= 750

\* C30: the status report is accurate: total_connections is the number of
\* connections subscribed in any scope, channel scopes and player scopes alike,
\* and player_channels is the number of player ids with at least one subscriber.
C30_StatusAccurate ==
    /\ websocket_status.total_connections = Cardinality(Registered)
    /\ websocket_status.player_channels
       = Cardinality({p \in DOMAIN player_connections : player_connections[p] # {}})

=============================================================================
